---- MODULE Spec2Model ----
(***************************************************************************)
(* State-machine model of pie_detection/scripts/yolov3_net.py:             *)
(*   YoloV3Net.parse_cfg  - the line-oriented architecture parser          *)
(*   YoloV3Net.load_model - the walk over the parsed blocks that builds    *)
(*                          the detection graph                            *)
(* Python strings are sequences of one-character strings; a dict is a      *)
(* function whose domain is its key set; a Python list is a sequence.      *)
(* Python indices are 0-based, TLA+ sequences 1-based: list[k] is seq[k+1].*)
(***************************************************************************)
EXTENDS Integers, Sequences, FiniteSets, TLC

\* Bounds of the model.
MaxLines == 3
MaxBlocks == 3
\* Python's integers are unbounded, the model checker's are 32-bit: a merged
\* prediction with more records than this is not explored.
MaxRecords == 2000000000
MaxGrid == 4
SigDen == 2
MaxExp == 2

VARIABLES
    pc,              \* position of the program
    file,            \* parse_cfg: the lines of cfgfile as the file iterator yields them
    lines,           \* parse_cfg: lines (after the filter of line 168)
    ln,              \* parse_cfg: 1-based position of the for loop in lines
    holder,          \* parse_cfg: holder
    blocks,          \* parse_cfg / load_model: blocks
    cfg,             \* load_model: the block list as parse_cfg returned it
    i,               \* load_model: loop index over blocks[1:]
    inputs,          \* load_model: inputs (the current tensor)
    outputs,         \* load_model: outputs (dict index -> tensor)
    output_filters,  \* load_model: output_filters (list)
    filters,         \* load_model: filters
    out_pred,        \* load_model: out_pred
    prediction,      \* load_model: prediction (of the last yolo block)
    scale,           \* load_model: scale
    nextId,          \* identity of the next tensor object the library creates
    layers,          \* load_model: the named layers created so far (name -> arguments)
    image_shape,     \* yolo branch: input_image.shape
    raw,             \* yolo branch: the values sigmoid and exp return for a record
    records,         \* yolo branch: the grid position and anchor slot each record of
                     \*              the reshaped inputs comes from
    mask,            \* yolo branch: mask
    anchors,         \* yolo branch: anchors
    n_anchors,       \* yolo branch: n_anchors
    out_shape,       \* yolo branch: out_shape
    box_centers,     \* yolo branch: box_centers, in units of 1/SigDen
    box_shapes,      \* yolo branch: box_shapes
    cxy,             \* yolo branch: cxy
    strides          \* yolo branch: strides

parseVars == <<file, lines, ln, holder>>
buildVars == <<cfg, i, inputs, outputs, output_filters, filters, out_pred, prediction,
              scale, nextId, layers>>
decodeVars == <<image_shape, raw, records, mask, anchors, n_anchors, out_shape,
               box_centers, box_shapes, cxy, strides>>
vars == <<pc, blocks, file, lines, ln, holder, cfg, i, inputs, outputs,
          output_filters, filters, out_pred, prediction, scale, nextId, layers,
          image_shape, raw, records, mask, anchors, n_anchors, out_shape,
          box_centers, box_shapes, cxy, strides>>

(***************************************************************************)
(* Python str operations                                                   *)
(***************************************************************************)
NL == "\n"

IsSpace(c) == c \in {" ", "\t", "\n"}

RECURSIVE rstrip(_)
rstrip(s) ==
    IF s = <<>> THEN s
    ELSE IF IsSpace(s[Len(s)]) THEN rstrip(SubSeq(s, 1, Len(s) - 1)) ELSE s

RECURSIVE lstrip(_)
lstrip(s) ==
    IF s = <<>> THEN s
    ELSE IF IsSpace(s[1]) THEN lstrip(Tail(s)) ELSE s

strip(s) == lstrip(rstrip(s))

\* line.rstrip('\n')
RECURSIVE rstripNL(_)
rstripNL(s) ==
    IF s = <<>> THEN s
    ELSE IF s[Len(s)] = NL THEN rstripNL(SubSeq(s, 1, Len(s) - 1)) ELSE s

\* s[1:-1]
Slice1m1(s) == SubSeq(s, 2, Len(s) - 1)

\* s.split(sep) for a one-character sep: always at least one piece
RECURSIVE splitAcc(_, _, _, _)
splitAcc(s, sep, cur, acc) ==
    IF s = <<>> THEN Append(acc, cur)
    ELSE IF s[1] = sep THEN splitAcc(Tail(s), sep, <<>>, Append(acc, cur))
    ELSE splitAcc(Tail(s), sep, Append(cur, s[1]), acc)

split(s, sep) == splitAcc(s, sep, <<>>, <<>>)

(***************************************************************************)
(* Python values stored in a block descriptor: a str, or (after the route  *)
(* branch of load_model has rewritten "layers") a list of str.             *)
(***************************************************************************)
PyStr(s) == [list |-> FALSE, v |-> s]
PyList(l) == [list |-> TRUE, v |-> l]

EmptyDict == [k \in {} |-> PyStr(<<>>)]
DictSet(d, k, v) == [x \in (DOMAIN d) \cup {k} |-> IF x = k THEN v ELSE d[x]]

\* Attribute names and block types, as Python str
kType == <<"t","y","p","e">>
typeEq == kType \o <<"=">>

(***************************************************************************)
(* parse_cfg                                                               *)
(***************************************************************************)
\* Line 168: the filter of the list comprehension and the rstrip('\n')
KeepLine(line) == line # <<NL>> /\ line[1] # "#"

FilterLines(f) == SelectSeq(f, KeepLine)

ReadLines(f) == [k \in 1..Len(FilterLines(f)) |-> rstripNL(FilterLines(f)[k])]

IsHeader(line) == line[1] = "["

\* Line 173
HeaderLine(line) == typeEq \o rstrip(Slice1m1(line))

\* Line 177: key, value = line.split("=") unpacks exactly two pieces
SplitOk(line) == Len(split(line, "=")) = 2

\* Line 178
Store(h, line) ==
    DictSet(h, rstrip(split(line, "=")[1]), PyStr(lstrip(split(line, "=")[2])))

\* Lines 174-176: the effect of a header on blocks and holder
FlushBlocks(h, bs) == IF DOMAIN h # {} THEN Append(bs, h) ELSE bs
FlushHolder(h) == IF DOMAIN h # {} THEN EmptyDict ELSE h

\* Lines 167-170
OpenFile ==
    /\ pc = "parse_open"
    /\ lines' = ReadLines(file)
    /\ holder' = EmptyDict
    /\ blocks' = <<>>
    /\ ln' = 1
    /\ pc' = "parse_loop"
    /\ UNCHANGED <<file, buildVars, decodeVars>>

\* Lines 171-178, a line starting with '['
ParseHeader ==
    /\ pc = "parse_loop"
    /\ ln <= Len(lines)
    /\ IsHeader(lines[ln])
    /\ SplitOk(HeaderLine(lines[ln]))
    /\ blocks' = FlushBlocks(holder, blocks)
    /\ holder' = Store(FlushHolder(holder), HeaderLine(lines[ln]))
    /\ ln' = ln + 1
    /\ UNCHANGED <<pc, file, lines, buildVars, decodeVars>>

\* Lines 171, 177-178, any other line
ParseKeyValue ==
    /\ pc = "parse_loop"
    /\ ln <= Len(lines)
    /\ ~IsHeader(lines[ln])
    /\ SplitOk(lines[ln])
    /\ holder' = Store(holder, lines[ln])
    /\ ln' = ln + 1
    /\ UNCHANGED <<pc, file, lines, blocks, buildVars, decodeVars>>

\* Line 177 raises ValueError (the header's flush of lines 174-176 has happened)
ParseRaise ==
    /\ pc = "parse_loop"
    /\ ln <= Len(lines)
    /\ ~SplitOk(IF IsHeader(lines[ln]) THEN HeaderLine(lines[ln]) ELSE lines[ln])
    /\ blocks' = IF IsHeader(lines[ln]) THEN FlushBlocks(holder, blocks) ELSE blocks
    /\ holder' = IF IsHeader(lines[ln]) THEN FlushHolder(holder) ELSE holder
    /\ pc' = "parse_raised"
    /\ UNCHANGED <<file, lines, ln, buildVars, decodeVars>>

\* Lines 179-180
ParseReturn ==
    /\ pc = "parse_loop"
    /\ ln > Len(lines)
    /\ blocks' = Append(blocks, holder)
    /\ pc' = "parse_returned"
    /\ UNCHANGED <<file, lines, ln, holder, buildVars, decodeVars>>

(***************************************************************************)
(* Attribute names, block types and activation names, as Python str        *)
(***************************************************************************)
kFilters == <<"f","i","l","t","e","r","s">>
kSize == <<"s","i","z","e">>
kStride == <<"s","t","r","i","d","e">>
kActivation == <<"a","c","t","i","v","a","t","i","o","n">>
kBatchNormalize == <<"b","a","t","c","h","_","n","o","r","m","a","l","i","z","e">>
kLayers == <<"l","a","y","e","r","s">>
kFrom == <<"f","r","o","m">>
kMask == <<"m","a","s","k">>
kAnchors == <<"a","n","c","h","o","r","s">>
tNet == <<"n","e","t">>
tConvolutional == <<"c","o","n","v","o","l","u","t","i","o","n","a","l">>
tUpsample == <<"u","p","s","a","m","p","l","e">>
tRoute == <<"r","o","u","t","e">>
tShortcut == <<"s","h","o","r","t","c","u","t">>
tYolo == <<"y","o","l","o">>
tMaxpool == <<"m","a","x","p","o","o","l">>
leaky == <<"l","e","a","k","y">>
linear == <<"l","i","n","e","a","r">>

(***************************************************************************)
(* Python int(), list indexing and the "+" of two filter counts            *)
(***************************************************************************)
Digits == <<"0","1","2","3","4","5","6","7","8","9">>
IsDigit(c) == \E k \in 1..10 : Digits[k] = c
DigitVal(c) == (CHOOSE k \in 1..10 : Digits[k] = c) - 1

RECURSIVE DigitsVal(_)
DigitsVal(s) ==
    IF s = <<>> THEN 0
    ELSE DigitsVal(SubSeq(s, 1, Len(s) - 1)) * 10 + DigitVal(s[Len(s)])

\* The digits of a literal, after its optional sign
IntBody(s) == IF s # <<>> /\ s[1] \in {"-", "+"} THEN Tail(s) ELSE s

\* int(s) does not raise ValueError: optional blanks, optional sign, digits
intOk(s) ==
    /\ IntBody(strip(s)) # <<>>
    /\ \A k \in 1..Len(IntBody(strip(s))) : IsDigit(IntBody(strip(s))[k])

int(s) ==
    IF strip(s)[1] = "-" THEN 0 - DigitsVal(IntBody(strip(s)))
    ELSE DigitsVal(IntBody(strip(s)))

\* list[k]: a negative k counts from the end; IndexError outside -len..len-1
ListOk(l, k) == 0 - Len(l) <= k /\ k < Len(l)
ListGet(l, k) == IF k < 0 THEN l[Len(l) + k + 1] ELSE l[k + 1]

\* Mutant of DictKey: the cache indexed like a list, a negative key counting
\* from the end
DictKeyFromEnd(d, k) == IF k < 0 THEN Cardinality(DOMAIN d) + k ELSE k

\* dict[k]: the key looked up is k itself (no counting from the end);
\* KeyError unless it is a key
DictKey(d, k) == k
DictOk(d, k) == DictKey(d, k) \in DOMAIN d
DictGet(d, k) == d[DictKey(d, k)]

\* The initial value [] of filters (line 56); every int filter count is >= 1
EmptyPyList == -1

\* a + b for two recorded filter counts: int + int, or [] + []; TypeError otherwise
PyAddOk(a, b) == (a = EmptyPyList) <=> (b = EmptyPyList)
PyAdd(a, b) == IF a = EmptyPyList THEN EmptyPyList ELSE a + b

(***************************************************************************)
(* Symbolic tensors of the tensor library: an object identity, the op that *)
(* made it, the identities of its operands and its static shape            *)
(* (get_shape().as_list(), the batch dimension being None).                *)
(***************************************************************************)
None == -1
num_classes == 80
model_size == <<416, 416, 3>>

Tensor(id, op, args, shape) == [id |-> id, op |-> op, args |-> args, shape |-> shape]

\* Line 60
input_image == Tensor(0, "Input", <<>>, <<None>> \o model_size)

\* Line 61
Normalized(x, id) == Tensor(id, "truediv", <<x.id>>, x.shape)

\* One spatial dimension through lines 72-80: pad by one and convolve "valid"
\* when strides > 1, convolve "same" otherwise
ConvDimOk(d, k, s) == s > 1 => (d = None \/ d + 1 - k >= 0)
ConvDim(d, k, s) ==
    IF d = None THEN None
    ELSE IF s > 1 THEN ((d + 1 - k) \div s) + 1 ELSE d

\* tf.concat(..., axis=-1): equal ranks, equal leading dimensions
DimMatch(a, b) == a = b \/ a = None \/ b = None
ConcatOk(sa, sb) ==
    /\ Len(sa) = Len(sb)
    /\ \A k \in 1..(Len(sa) - 1) : DimMatch(sa[k], sb[k])
ConcatShape(sa, sb) ==
    [k \in 1..Len(sa) |->
        IF k = Len(sa)
        THEN (IF sa[k] = None \/ sb[k] = None THEN None ELSE sa[k] + sb[k])
        ELSE (IF sa[k] = None THEN sb[k] ELSE sa[k])]

\* a + b: the shapes broadcast, right-aligned
PadTo(s, n) == [k \in 1..n |-> IF k <= n - Len(s) THEN 1 ELSE s[k - (n - Len(s))]]
LongerRank(sa, sb) == IF Len(sa) >= Len(sb) THEN Len(sa) ELSE Len(sb)
BDimOk(a, b) == a = b \/ a = 1 \/ b = 1 \/ a = None \/ b = None
BDim(a, b) ==
    IF a = b THEN a
    ELSE IF a = 1 THEN b
    ELSE IF b = 1 THEN a
    ELSE IF a = None THEN b ELSE a
BroadcastOk(sa, sb) ==
    \A k \in 1..LongerRank(sa, sb) :
        BDimOk(PadTo(sa, LongerRank(sa, sb))[k], PadTo(sb, LongerRank(sa, sb))[k])
Broadcast(sa, sb) ==
    [k \in 1..LongerRank(sa, sb) |->
        BDim(PadTo(sa, LongerRank(sa, sb))[k], PadTo(sb, LongerRank(sa, sb))[k])]

(***************************************************************************)
(* load_model: the per-block computations                                  *)
(***************************************************************************)
Has(b, k) == k \in DOMAIN b
StrAttr(b, k) == Has(b, k) /\ ~b[k].list
IntAttrOk(b, k) == StrAttr(b, k) /\ intOk(b[k].v)
IntAttr(b, k) == int(b[k].v)

\* blocks[1:][k]
BlockAt(bs, k) == bs[k + 2]
NumBlocks(bs) == IF Len(bs) = 0 THEN 0 ELSE Len(bs) - 1

\* Mutant of CacheOutputs: the entry is stored one index too low
CacheOutputsBelow(outs, k, x) == DictSet(outs, IF k = 0 THEN 0 ELSE k - 1, x)

\* Lines 159-160
CacheOutputs(outs, k, x) == DictSet(outs, k, x)
CacheFilters(of, f) == Append(of, f)

\* Lines 65-85.  The layer calls raise unless the input has rank 4, filters,
\* kernel size and strides are positive and no output dimension is negative.
ConvOk(b, x) ==
    /\ Has(b, kActivation)
    /\ IntAttrOk(b, kFilters) /\ IntAttrOk(b, kSize) /\ IntAttrOk(b, kStride)
    /\ Len(x.shape) = 4
    /\ IntAttr(b, kFilters) >= 1 /\ IntAttr(b, kSize) >= 1 /\ IntAttr(b, kStride) >= 1
    /\ ConvDimOk(x.shape[2], IntAttr(b, kSize), IntAttr(b, kStride))
    /\ ConvDimOk(x.shape[3], IntAttr(b, kSize), IntAttr(b, kStride))

ConvFilters(b) == IntAttr(b, kFilters)

\* The last layer applied by lines 75-85
ConvOp(b) ==
    IF b[kActivation] = PyStr(leaky) THEN "LeakyReLU"
    ELSE IF Has(b, kBatchNormalize) THEN "BatchNormalization" ELSE "Conv2D"

\* Mutant of ConvLayer: the convolution has a bias term whatever the block holds
ConvLayerWithBias(b) ==
    [filters |-> IntAttr(b, kFilters), kernel_size |-> IntAttr(b, kSize),
     strides |-> IntAttr(b, kStride),
     padding |-> IF IntAttr(b, kStride) > 1 THEN "valid" ELSE "same",
     use_bias |-> TRUE]

\* Lines 75-80: the arguments of the Conv2D layer
ConvLayer(b) ==
    [filters |-> IntAttr(b, kFilters), kernel_size |-> IntAttr(b, kSize),
     strides |-> IntAttr(b, kStride),
     padding |-> IF IntAttr(b, kStride) > 1 THEN "valid" ELSE "same",
     use_bias |-> IF Has(b, kBatchNormalize) THEN FALSE ELSE TRUE]

\* Line 79: name='conv_' + str(i)
ConvName(k) == <<"conv_", k>>

\* Lines 75-80: the layers with the block's Conv2D layer added
ConvLayers(ls, b, k) == DictSet(ls, ConvName(k), ConvLayer(b))

ConvInputs(b, x, id) ==
    Tensor(id, ConvOp(b), <<x.id>>,
           <<x.shape[1],
             ConvDim(x.shape[2], IntAttr(b, kSize), IntAttr(b, kStride)),
             ConvDim(x.shape[3], IntAttr(b, kSize), IntAttr(b, kStride)),
             ConvFilters(b)>>)

\* Lines 87-89
UpsampleOk(b, x) ==
    /\ IntAttrOk(b, kStride)
    /\ Len(x.shape) = 4
    /\ IntAttr(b, kStride) >= 1

UpDim(d, s) == IF d = None THEN None ELSE d * s

UpsampleInputs(b, x, id) ==
    Tensor(id, "UpSampling2D", <<x.id>>,
           <<x.shape[1], UpDim(x.shape[2], IntAttr(b, kStride)),
             UpDim(x.shape[3], IntAttr(b, kStride)), x.shape[4]>>)

\* Lines 93-97
RouteLayers(b) == split(b[kLayers].v, ",")
RouteTwo(b) == Len(RouteLayers(b)) > 1
RouteStart(b) == int(RouteLayers(b)[1])

\* Mutant of RouteEnd: the second value is taken as relative, like the first
RouteEndRelative(b, k) == int(RouteLayers(b)[2])

\* Line 97
RouteEnd(b, k) == int(RouteLayers(b)[2]) - k
RouteBlock(b) == DictSet(b, kLayers, PyList(RouteLayers(b)))

\* Mutant of RouteFilters: a single reference copies the previous layer's count
RouteFiltersPrevious(b, k, of) ==
    IF RouteTwo(b)
    THEN PyAdd(ListGet(of, k + RouteStart(b)), ListGet(of, RouteEnd(b, k)))
    ELSE ListGet(of, k - 1)

\* Mutant of RouteFilters: two references add the first layer's count twice
RouteFiltersTwice(b, k, of) ==
    IF RouteTwo(b)
    THEN PyAdd(ListGet(of, k + RouteStart(b)), ListGet(of, k + RouteStart(b)))
    ELSE ListGet(of, k + RouteStart(b))

\* Lines 98 and 101
RouteFilters(b, k, of) ==
    IF RouteTwo(b)
    THEN PyAdd(ListGet(of, k + RouteStart(b)), ListGet(of, RouteEnd(b, k)))
    ELSE ListGet(of, k + RouteStart(b))

\* Lines 99 and 102
RouteInputs(b, k, outs, id) ==
    IF RouteTwo(b)
    THEN Tensor(id, "concat",
                <<DictGet(outs, k + RouteStart(b)).id, DictGet(outs, k + RouteEnd(b, k)).id>>,
                ConcatShape(DictGet(outs, k + RouteStart(b)).shape,
                            DictGet(outs, k + RouteEnd(b, k)).shape))
    ELSE DictGet(outs, k + RouteStart(b))

\* Lines 93-102 raise nothing
RouteOk(b, k, outs, of) ==
    /\ StrAttr(b, kLayers)
    /\ intOk(RouteLayers(b)[1])
    /\ IF RouteTwo(b)
       THEN /\ intOk(RouteLayers(b)[2])
            /\ ListOk(of, k + RouteStart(b))
            /\ ListOk(of, RouteEnd(b, k))
            /\ PyAddOk(ListGet(of, k + RouteStart(b)), ListGet(of, RouteEnd(b, k)))
            /\ DictOk(outs, k + RouteStart(b))
            /\ DictOk(outs, k + RouteEnd(b, k))
            /\ ConcatOk(DictGet(outs, k + RouteStart(b)).shape, DictGet(outs, k + RouteEnd(b, k)).shape)
       ELSE /\ ListOk(of, k + RouteStart(b))
            /\ DictOk(outs, k + RouteStart(b))

\* Lines 105-106
ShortcutFrom(b) == IntAttr(b, kFrom)

ShortcutOk(b, k, outs) ==
    /\ IntAttrOk(b, kFrom)
    /\ DictOk(outs, k - 1)
    /\ DictOk(outs, k + ShortcutFrom(b))
    /\ BroadcastOk(DictGet(outs, k - 1).shape, DictGet(outs, k + ShortcutFrom(b)).shape)

\* Mutant of ShortcutInputs: the operands are taken in the other order
ShortcutInputsSwapped(b, k, outs, id) ==
    Tensor(id, "add", <<DictGet(outs, k + ShortcutFrom(b)).id, DictGet(outs, k - 1).id>>,
           Broadcast(DictGet(outs, k - 1).shape, DictGet(outs, k + ShortcutFrom(b)).shape))

ShortcutInputs(b, k, outs, id) ==
    Tensor(id, "add", <<DictGet(outs, k - 1).id, DictGet(outs, k + ShortcutFrom(b)).id>>,
           Broadcast(DictGet(outs, k - 1).shape, DictGet(outs, k + ShortcutFrom(b)).shape))

\* Lines 111-116
IntListOk(s) == \A k \in 1..Len(split(s, ",")) : intOk(split(s, ",")[k])
IntList(s) == [k \in 1..Len(split(s, ",")) |-> int(split(s, ",")[k])]

YoloMask(b) == IntList(b[kMask].v)

\* Mutant of AnchorPool: a pair starts at every value of the list
AnchorPoolOverlapping(b) ==
    [k \in 1..(Len(IntList(b[kAnchors].v)) \div 2) |->
        <<IntList(b[kAnchors].v)[k], IntList(b[kAnchors].v)[k + 1]>>]

\* Lines 114-115
AnchorPool(b) ==
    [k \in 1..(Len(IntList(b[kAnchors].v)) \div 2) |->
        <<IntList(b[kAnchors].v)[2 * k - 1], IntList(b[kAnchors].v)[2 * k]>>]
AnchorSet(b) == [k \in 1..Len(YoloMask(b)) |-> ListGet(AnchorPool(b), YoloMask(b)[k])]

AnchorsOk(b) ==
    /\ StrAttr(b, kMask) /\ IntListOk(b[kMask].v)
    /\ StrAttr(b, kAnchors) /\ IntListOk(b[kAnchors].v)
    /\ Len(IntList(b[kAnchors].v)) % 2 = 0
    /\ \A k \in 1..Len(YoloMask(b)) : ListOk(AnchorPool(b), YoloMask(b)[k])

\* Line 118
NAnchors(b) == Len(AnchorSet(b))

\* Lines 120-149 raise nothing: the two grid dimensions are known integers
YoloOk(b, x) ==
    /\ AnchorsOk(b)
    /\ Len(x.shape) >= 3
    /\ x.shape[2] # None /\ x.shape[3] # None

\* Mutant of Reshaped: the record count leaves out the anchors per cell
ReshapedPerCell(b, x, id) ==
    Tensor(id, "reshape", <<x.id>>,
           <<None, x.shape[2] * x.shape[3], 5 + num_classes>>)

\* Mutant of Reshaped: the current tensor stays the grid-shaped one
ReshapedKeepsGrid(b, x, id) == x

\* Lines 120-123
Reshaped(b, x, id) ==
    Tensor(id, "reshape", <<x.id>>,
           <<None, NAnchors(b) * x.shape[2] * x.shape[3], 5 + num_classes>>)

\* Lines 125-128: the channel slices 0:2, 2:4, 4:5 and 5:num_classes+5 of r
SliceLen(lo, hi, n) ==
    IF (IF hi < n THEN hi ELSE n) > lo THEN (IF hi < n THEN hi ELSE n) - lo ELSE 0

\* Lines 125-151: the decoded head; heads is the layout of its record axis
Decode(r, k, id) ==
    [id |-> id, op |-> "concat", args |-> <<r.id>>,
     shape |-> <<r.shape[1], r.shape[2],
                 SliceLen(0, 2, r.shape[3]) + SliceLen(2, 4, r.shape[3])
                 + SliceLen(4, 5, r.shape[3])
                 + SliceLen(5, num_classes + 5, r.shape[3])>>,
     heads |-> <<[block |-> k, n |-> r.shape[2]]>>]

\* Line 57: out_pred = []
EmptyPred == [id |-> None, op |-> "list", args |-> <<>>, shape |-> <<>>, heads |-> <<>>]

\* Mutant of Merge: a later head is put before the accumulated records
MergeInFront(acc, pred, sc, id) ==
    IF sc # 0
    THEN [id |-> id, op |-> "concat", args |-> <<pred.id, acc.id>>,
          shape |-> <<pred.shape[1], acc.shape[2] + pred.shape[2], pred.shape[3]>>,
          heads |-> pred.heads \o acc.heads]
    ELSE pred

\* Lines 153-157
Merge(acc, pred, sc, id) ==
    IF sc # 0
    THEN [id |-> id, op |-> "concat", args |-> <<acc.id, pred.id>>,
          shape |-> <<pred.shape[1], acc.shape[2] + pred.shape[2], pred.shape[3]>>,
          heads |-> acc.heads \o pred.heads]
    ELSE pred

(***************************************************************************)
(* load_model, the yolo branch record by record (lines 111-149).  A sigmoid *)
(* value is a count of 1/SigDen units, an exp value a positive integer.     *)
(***************************************************************************)
\* Lines 122-123: reshape keeps the row-major order of (h, w, anchor slot), so
\* record r of the reshaped inputs holds the channels of slot a of cell (h, w)
\* with r = (h * W + w) * A + a
GridRecords(H, W, A) ==
    [r \in 1..(H * W * A) |->
        [h |-> ((r - 1) \div A) \div W, w |-> ((r - 1) \div A) % W, a |-> (r - 1) % A]]

\* Line 130: sigmoid of the center channels of every record
SigmoidCenters(recs, v) == [r \in DOMAIN recs |-> <<v.sx, v.sy>>]

\* Line 134: tf.tile(anchors, [n, 1])
TileRows(rows, n) == [r \in 1..(n * Len(rows)) |-> rows[((r - 1) % Len(rows)) + 1]]

\* Line 135: exp of the size channels times the tiled anchors
BoxShapes(recs, v, tiled) ==
    [r \in DOMAIN recs |-> <<v.ex * tiled[r][1], v.ex * tiled[r][2]>>]

\* Lines 137-138: tf.range
Range(n) == [k \in 1..n |-> k - 1]

\* Line 139: tf.meshgrid(x, y), both results with len(y) rows and len(x) columns
MeshCx(x, y) == [j \in 1..Len(y) |-> [k \in 1..Len(x) |-> x[k]]]
MeshCy(x, y) == [j \in 1..Len(y) |-> [k \in 1..Len(x) |-> y[j]]]

\* Lines 140-141, 145: the elements of a matrix in row-major order
Flatten(m) ==
    [p \in 1..(Len(m) * Len(m[1])) |->
        m[((p - 1) \div Len(m[1])) + 1][((p - 1) % Len(m[1])) + 1]]

\* Line 143: tf.concat([cx, cy], axis=-1) of two columns
ConcatColumns(a, b) == [p \in 1..Len(a) |-> <<a[p], b[p]>>]

\* Line 144: tf.tile(cxy, [1, n])
TileColumns(rows, n) ==
    [p \in 1..Len(rows) |->
        [c \in 1..(n * Len(rows[p])) |-> rows[p][((c - 1) % Len(rows[p])) + 1]]]

\* Line 145: tf.reshape(cxy, [1, -1, 2])
Pairs(flat) == [q \in 1..(Len(flat) \div 2) |-> <<flat[2 * q - 1], flat[2 * q]>>]

\* Lines 137-145
GridOffsets(shape, n) ==
    Pairs(Flatten(TileColumns(
        ConcatColumns(Flatten(MeshCx(Range(shape[2]), Range(shape[3]))),
                      Flatten(MeshCy(Range(shape[2]), Range(shape[3])))), n)))

\* Lines 147-148
Strides(img, shape) == <<img[2] \div shape[2], img[3] \div shape[3]>>

\* Mutant of BoxCenters: the stride scales the sigmoid value before the grid
\* cell is added
BoxCentersStrideFirst(bc, offs, st) ==
    [r \in DOMAIN bc |->
        <<bc[r][1] * st[1] + SigDen * offs[r][1],
          bc[r][2] * st[2] + SigDen * offs[r][2]>>]

\* Line 149: (box_centers + cxy) * strides
BoxCenters(bc, offs, st) ==
    [r \in DOMAIN bc |->
        <<(bc[r][1] + SigDen * offs[r][1]) * st[1],
          (bc[r][2] + SigDen * offs[r][2]) * st[2]>>]

(***************************************************************************)
(* load_model: the walk of lines 63-160, one action per branch             *)
(***************************************************************************)
RecognizedTypes == {tConvolutional, tUpsample, tRoute, tShortcut, tYolo}

Walking == pc = "walk" /\ i < NumBlocks(blocks)
block == BlockAt(blocks, i)
TypeOk(b) == StrAttr(b, kType)
TypeIs(b, t) == TypeOk(b) /\ b[kType].v = t

\* Lines 65-85, 159-160
Convolutional ==
    /\ Walking
    /\ TypeIs(block, tConvolutional)
    /\ ConvOk(block, inputs)
    /\ inputs' = ConvInputs(block, inputs, nextId)
    /\ filters' = ConvFilters(block)
    /\ layers' = ConvLayers(layers, block, i)
    /\ outputs' = CacheOutputs(outputs, i, inputs')
    /\ output_filters' = CacheFilters(output_filters, filters')
    /\ nextId' = nextId + 1
    /\ i' = i + 1
    /\ UNCHANGED <<pc, blocks, cfg, out_pred, prediction, scale, parseVars, decodeVars>>

\* Lines 87-89, 159-160
Upsample ==
    /\ Walking
    /\ TypeIs(block, tUpsample)
    /\ UpsampleOk(block, inputs)
    /\ inputs' = UpsampleInputs(block, inputs, nextId)
    /\ outputs' = CacheOutputs(outputs, i, inputs')
    /\ output_filters' = CacheFilters(output_filters, filters)
    /\ nextId' = nextId + 1
    /\ i' = i + 1
    /\ UNCHANGED <<pc, blocks, cfg, filters, out_pred, prediction, scale, layers, parseVars, decodeVars>>

\* Lines 92-102, 159-160
Route ==
    /\ Walking
    /\ TypeIs(block, tRoute)
    /\ RouteOk(block, i, outputs, output_filters)
    /\ blocks' = [blocks EXCEPT ![i + 2] = RouteBlock(block)]
    /\ filters' = RouteFilters(block, i, output_filters)
    /\ inputs' = RouteInputs(block, i, outputs, nextId)
    /\ outputs' = CacheOutputs(outputs, i, inputs')
    /\ output_filters' = CacheFilters(output_filters, filters')
    /\ nextId' = IF RouteTwo(block) THEN nextId + 1 ELSE nextId
    /\ i' = i + 1
    /\ UNCHANGED <<pc, cfg, out_pred, prediction, scale, layers, parseVars, decodeVars>>

\* Lines 104-106, 159-160
Shortcut ==
    /\ Walking
    /\ TypeIs(block, tShortcut)
    /\ ShortcutOk(block, i, outputs)
    /\ inputs' = ShortcutInputs(block, i, outputs, nextId)
    /\ outputs' = CacheOutputs(outputs, i, inputs')
    /\ output_filters' = CacheFilters(output_filters, filters)
    /\ nextId' = nextId + 1
    /\ i' = i + 1
    /\ UNCHANGED <<pc, blocks, cfg, filters, out_pred, prediction, scale, layers, parseVars, decodeVars>>

\* The record count of the merged prediction, acc's records plus the head's
\* n_anchors * H * W, is at most MaxRecords
AccRecords(acc) == IF acc.shape = <<>> THEN 0 ELSE acc.shape[2]
WithinRecords(b, x, acc) ==
    /\ x.shape[2] <= (MaxRecords \div NAnchors(b)) \div x.shape[3]
    /\ NAnchors(b) * x.shape[2] * x.shape[3] <= MaxRecords - AccRecords(acc)

\* Lines 109-157, 159-160
Yolo ==
    /\ Walking
    /\ TypeIs(block, tYolo)
    /\ YoloOk(block, inputs)
    /\ WithinRecords(block, inputs, out_pred)
    /\ inputs' = Reshaped(block, inputs, nextId)
    /\ prediction' = Decode(inputs', i, nextId + 1)
    /\ out_pred' = Merge(out_pred, prediction', scale, nextId + 2)
    /\ scale' = 1
    /\ outputs' = CacheOutputs(outputs, i, inputs')
    /\ output_filters' = CacheFilters(output_filters, filters)
    /\ nextId' = nextId + 3
    /\ i' = i + 1
    /\ UNCHANGED <<pc, blocks, cfg, filters, layers, parseVars, decodeVars>>

\* No branch of the if/elif chain of lines 65-109 matches: lines 159-160 only
Unrecognized ==
    /\ Walking
    /\ TypeOk(block)
    /\ block[kType].v \notin RecognizedTypes
    /\ outputs' = CacheOutputs(outputs, i, inputs)
    /\ output_filters' = CacheFilters(output_filters, filters)
    /\ i' = i + 1
    /\ UNCHANGED <<pc, blocks, cfg, inputs, filters, out_pred, prediction, scale,
                   nextId, layers, parseVars, decodeVars>>

\* The block's branch raises nothing
BlockOk(b, k, x, outs, of) ==
    /\ TypeOk(b)
    /\ (b[kType].v = tConvolutional => ConvOk(b, x))
    /\ (b[kType].v = tUpsample => UpsampleOk(b, x))
    /\ (b[kType].v = tRoute => RouteOk(b, k, outs, of))
    /\ (b[kType].v = tShortcut => ShortcutOk(b, k, outs))
    /\ (b[kType].v = tYolo => YoloOk(b, x))

\* An exception (KeyError, IndexError, ValueError, TypeError) leaves load_model;
\* in a route block line 93 has run by then unless the block has no layers
Raise ==
    /\ Walking
    /\ ~BlockOk(block, i, inputs, outputs, output_filters)
    /\ pc' = "raised"
    /\ blocks' = IF TypeIs(block, tRoute) /\ StrAttr(block, kLayers)
                 THEN [blocks EXCEPT ![i + 2] = RouteBlock(block)]
                 ELSE blocks
    /\ UNCHANGED <<buildVars, parseVars, decodeVars>>

\* Lines 162-164
ReturnModel ==
    /\ pc = "walk"
    /\ i = NumBlocks(blocks)
    /\ pc' = "returned"
    /\ UNCHANGED <<blocks, buildVars, parseVars, decodeVars>>

\* Line 162 with out_pred still []: whether Model accepts an empty output list
\* depends on the library version, so both outcomes are possible
ModelRaise ==
    /\ pc = "walk"
    /\ i = NumBlocks(blocks)
    /\ scale = 0
    /\ pc' = "raised"
    /\ UNCHANGED <<blocks, buildVars, parseVars, decodeVars>>

(***************************************************************************)
(* load_model: the yolo branch of lines 111-149, one action per stage       *)
(***************************************************************************)
\* Lines 111-118
SelectAnchors ==
    /\ pc = "yolo_mask"
    /\ AnchorsOk(block)
    /\ mask' = YoloMask(block)
    /\ anchors' = AnchorSet(block)
    /\ n_anchors' = NAnchors(block)
    /\ pc' = "yolo_reshape"
    /\ UNCHANGED <<blocks, buildVars, parseVars, image_shape, raw, records, out_shape,
                   box_centers, box_shapes, cxy, strides>>

\* Lines 111-116 raise ValueError or IndexError
SelectRaise ==
    /\ pc = "yolo_mask"
    /\ ~AnchorsOk(block)
    /\ pc' = "raised"
    /\ UNCHANGED <<blocks, buildVars, parseVars, decodeVars>>

\* Lines 120-132
ReshapeRecords ==
    /\ pc = "yolo_reshape"
    /\ out_shape' = inputs.shape
    /\ inputs' = Reshaped(block, inputs, nextId)
    /\ nextId' = nextId + 1
    /\ records' = GridRecords(inputs.shape[2], inputs.shape[3], n_anchors)
    /\ box_centers' = SigmoidCenters(records', raw)
    /\ pc' = "yolo_sizes"
    /\ UNCHANGED <<blocks, cfg, i, outputs, output_filters, filters, out_pred, prediction,
                   scale, layers, parseVars, image_shape, raw, mask, anchors, n_anchors,
                   box_shapes, cxy, strides>>

\* Lines 134-135
ScaleShapes ==
    /\ pc = "yolo_sizes"
    /\ anchors' = TileRows(anchors, out_shape[2] * out_shape[3])
    /\ box_shapes' = BoxShapes(records, raw, anchors')
    /\ pc' = "yolo_grid"
    /\ UNCHANGED <<blocks, buildVars, parseVars, image_shape, raw, records, mask,
                   n_anchors, out_shape, box_centers, cxy, strides>>

\* Lines 137-145
BuildGrid ==
    /\ pc = "yolo_grid"
    /\ cxy' = GridOffsets(out_shape, n_anchors)
    /\ pc' = "yolo_centers"
    /\ UNCHANGED <<blocks, buildVars, parseVars, image_shape, raw, records, mask, anchors,
                   n_anchors, out_shape, box_centers, box_shapes, strides>>

\* Lines 147-149
ScaleCenters ==
    /\ pc = "yolo_centers"
    /\ strides' = Strides(image_shape, out_shape)
    /\ box_centers' = BoxCenters(box_centers, cxy, strides')
    /\ pc' = "yolo_decoded"
    /\ UNCHANGED <<blocks, buildVars, parseVars, image_shape, raw, records, mask, anchors,
                   n_anchors, out_shape, box_shapes, cxy>>

(***************************************************************************)
(* Inputs: cfg files (parse_cfg) and parsed block lists (load_model)       *)
(***************************************************************************)
Line(s) == s \o <<NL>>

RawLines ==
    { Line(<<"[">> \o tNet \o <<"]">>),
      Line(<<"[">> \o tYolo \o <<"]">>),
      Line(kMask \o <<"=", "0">>),
      Line(kMask \o <<" ", "=", " ", "1">>),
      Line(<<" ">> \o kMask \o <<"=", "0", " ">>),
      Line(kType \o <<"=">> \o tYolo),
      Line(kMask \o <<"=", "0", "=", "1">>),
      Line(kMask),
      Line(<<"#">> \o kMask),
      Line(<<>>) }

Files == UNION { [1..n -> RawLines] : n \in 0..MaxLines }

Str(k, s) == k :> PyStr(s)

NetBlock == Str(kType, tNet)

ConvA ==
    Str(kType, tConvolutional) @@ Str(kBatchNormalize, <<"1">>)
    @@ Str(kFilters, <<"8","5">>) @@ Str(kSize, <<"1">>) @@ Str(kStride, <<"1">>)
    @@ Str(kActivation, leaky)

ConvB ==
    Str(kType, tConvolutional) @@ Str(kFilters, <<"1","7","0">>)
    @@ Str(kSize, <<"3">>) @@ Str(kStride, <<"2">>) @@ Str(kActivation, linear)

ConvMin ==
    Str(kType, tConvolutional) @@ Str(kFilters, <<"1">>)
    @@ Str(kSize, <<"1">>) @@ Str(kStride, <<"1">>) @@ Str(kActivation, linear)

Up2 == Str(kType, tUpsample) @@ Str(kStride, <<"2">>)

RouteBack(s) == Str(kType, tRoute) @@ Str(kLayers, s)

ShortcutBack(s) == Str(kType, tShortcut) @@ Str(kFrom, s) @@ Str(kActivation, linear)

YoloHead(m) ==
    Str(kType, tYolo) @@ Str(kMask, m)
    @@ Str(kAnchors, <<"1","0",",","1","3",","," ","1","6",",","3","0">>)

Pooling == Str(kType, tMaxpool) @@ Str(kSize, <<"2">>) @@ Str(kStride, <<"2">>)

BlockPool ==
    { ConvA, ConvB, ConvMin, Up2,
      RouteBack(<<"-","1">>), RouteBack(<<"-","2">>), RouteBack(<<"-","1",","," ","0">>),
      RouteBack(<<"-","1",",","2">>), RouteBack(<<"-","1",",","-","1">>),
      ShortcutBack(<<"-","1">>), ShortcutBack(<<"-","2">>),
      YoloHead(<<"0">>), YoloHead(<<"0",",","1">>),
      Pooling }

\* Inputs of the yolo branch: heads over the two-pair anchor pool, grids of up
\* to MaxGrid cells a side and input images of two sizes a side
YoloPool ==
    { YoloHead(<<"0">>), YoloHead(<<"0",",","1">>), YoloHead(<<"1",",","0">>),
      YoloHead(<<"-","1">>), YoloHead(<<"2">>), YoloHead(<<"0",",","3">>) }

ImageDims == {128, model_size[1]}
ImageShapes == { <<None, h, w, model_size[3]>> : h \in ImageDims, w \in ImageDims }

\* A current tensor of H x W cells with n records of channels per cell
GridTensor(H, W, n) == Tensor(1, "Conv2D", <<0>>, <<None, H, W, n * (5 + num_classes)>>)

Cfgs == { <<NetBlock>> \o s : s \in UNION { [1..n -> BlockPool] : n \in 0..MaxBlocks } }

(***************************************************************************)
(* Specifications                                                          *)
(***************************************************************************)
\* load_model's locals before the walk (lines 54-61)
BuildLocals ==
    /\ i = 0
    /\ inputs = Normalized(input_image, 1)
    /\ outputs = EmptyDict
    /\ output_filters = <<>>
    /\ filters = EmptyPyList
    /\ out_pred = EmptyPred
    /\ prediction = EmptyPred
    /\ scale = 0
    /\ nextId = 2
    /\ layers = EmptyDict

\* The locals of the yolo branch before a yolo block is reached
YoloLocals ==
    /\ mask = <<>>
    /\ anchors = <<>>
    /\ n_anchors = 0
    /\ out_shape = <<>>
    /\ records = <<>>
    /\ box_centers = <<>>
    /\ box_shapes = <<>>
    /\ cxy = <<>>
    /\ strides = <<>>

\* The walk of SpecParse and SpecBuild does not enter the stages of the yolo branch
NoDecode ==
    /\ image_shape = input_image.shape
    /\ raw = [sx |-> 1, sy |-> 1, ex |-> 1]
    /\ YoloLocals

\* parse_cfg is entered with a cfg file
InitParse ==
    /\ pc = "parse_open"
    /\ file \in Files
    /\ lines = <<>>
    /\ ln = 1
    /\ holder = EmptyDict
    /\ blocks = <<>>
    /\ cfg = <<>>
    /\ BuildLocals
    /\ NoDecode

NextParse == OpenFile \/ ParseHeader \/ ParseKeyValue \/ ParseRaise \/ ParseReturn

SpecParse == InitParse /\ [][NextParse]_vars

\* load_model after line 52 returned the block list and lines 54-61 ran
InitBuild ==
    /\ pc = "walk"
    /\ file = <<>>
    /\ lines = <<>>
    /\ ln = 1
    /\ holder = EmptyDict
    /\ blocks \in Cfgs
    /\ cfg = blocks
    /\ BuildLocals
    /\ NoDecode

NextBuild ==
    \/ Convolutional \/ Upsample \/ Route \/ Shortcut \/ Yolo \/ Unrecognized
    \/ Raise \/ ReturnModel \/ ModelRaise

SpecBuild == InitBuild /\ [][NextBuild]_vars

\* load_model at a yolo block: the walk reached the block with a grid-shaped
\* current tensor whose channels are one record per mask entry
InitDecode ==
    /\ pc = "yolo_mask"
    /\ file = <<>>
    /\ lines = <<>>
    /\ ln = 1
    /\ holder = EmptyDict
    /\ \E b \in YoloPool, H \in 1..MaxGrid, W \in 1..MaxGrid :
          /\ blocks = <<NetBlock, b>>
          /\ inputs = GridTensor(H, W, Len(split(b[kMask].v, ",")))
    /\ cfg = blocks
    /\ i = 0
    /\ outputs = EmptyDict
    /\ output_filters = <<>>
    /\ filters = EmptyPyList
    /\ out_pred = EmptyPred
    /\ prediction = EmptyPred
    /\ scale = 0
    /\ nextId = 2
    /\ layers = EmptyDict
    /\ image_shape \in ImageShapes
    /\ raw \in [sx : 1..(SigDen - 1), sy : 1..(SigDen - 1), ex : 1..MaxExp]
    /\ YoloLocals

NextDecode ==
    \/ SelectAnchors \/ SelectRaise \/ ReshapeRecords \/ ScaleShapes \/ BuildGrid
    \/ ScaleCenters

SpecDecode == InitDecode /\ [][NextDecode]_vars

(***************************************************************************)
(* Claims about parse_cfg (SpecParse)                                      *)
(***************************************************************************)
\* The significant lines of the file: neither blank nor comment
Significant(f) == ReadLines(f)

Contains(s, c) == \E k \in 1..Len(s) : s[k] = c
FirstPos(s, c) == CHOOSE k \in 1..Len(s) : s[k] = c /\ \A j \in 1..(k - 1) : s[j] # c

\* A key=value line: not a header, with an '='
IsKeyValue(line) == ~IsHeader(line) /\ Contains(line, "=")
KeyOf(line) == strip(SubSeq(line, 1, FirstPos(line, "=") - 1))
ValueOf(line) == strip(SubSeq(line, FirstPos(line, "=") + 1, Len(line)))

\* The type token between the brackets of a header
BracketToken(line) == SubSeq(line, 2, FirstPos(line, "]") - 1)

LeadingKeyValue(f) == Significant(f) # <<>> /\ IsKeyValue(Significant(f)[1])
LeadingHeader(f) == Significant(f) # <<>> /\ IsHeader(Significant(f)[1])

\* The positions of the headers among the significant lines, in source order
HeaderPositions(ls) == SelectSeq([k \in 1..Len(ls) |-> k], LAMBDA k : IsHeader(ls[k]))

\* The key=value lines of the j-th section: after its header, before the next
SectionLines(ls, j) ==
    { m \in 1..Len(ls) :
        /\ m > HeaderPositions(ls)[j]
        /\ (j < Len(HeaderPositions(ls)) => m < HeaderPositions(ls)[j + 1]) }

\* The last line of section j that sets the key of line m
LastOfKey(ls, j, m) ==
    \A m2 \in SectionLines(ls, j) : KeyOf(ls[m2]) = KeyOf(ls[m]) => m2 <= m

\* C1: parse_cfg never returns for a source whose first significant line is
\* a key=value line (it fails instead), so no returned sequence holds a
\* descriptor built from lines that precede the first header.
C1_LeadingKeyValueFails ==
    ~(pc = "parse_returned" /\ LeadingKeyValue(file))

\* C2: for a source whose first significant line is a header, the returned
\* sequence has one descriptor per header, in source order, each holding the
\* type of its header and the key=value lines up to the next header.
C2_OneDescriptorPerHeader ==
    (pc = "parse_returned" /\ LeadingHeader(file)) =>
        /\ Len(blocks) = Len(HeaderPositions(lines))
        /\ \A j \in 1..Len(HeaderPositions(lines)) :
            /\ j <= Len(blocks)
            /\ kType \in DOMAIN blocks[j]
            /\ blocks[j][kType] = PyStr(BracketToken(lines[HeaderPositions(lines)[j]]))
            /\ \A m \in SectionLines(lines, j) :
                /\ KeyOf(lines[m]) \in DOMAIN blocks[j]
                /\ LastOfKey(lines, j, m) =>
                       blocks[j][KeyOf(lines[m])] = PyStr(ValueOf(lines[m]))

(***************************************************************************)
(* Claims about load_model (SpecBuild).  They read the block list as the   *)
(* parser returned it (cfg) and the caches the walk has filled.            *)
(***************************************************************************)
CfgBlock(k) == BlockAt(cfg, k)
Processed == DOMAIN outputs
Filter(k) == output_filters[k + 1]

\* The references of a route or shortcut block at index k, resolved to
\* absolute layer indices: i+start and the second layers value; i-1 and i+from
CfgLayers(k) == split(CfgBlock(k)[kLayers].v, ",")
FirstRef(k) == k + int(CfgLayers(k)[1])
SecondRef(k) == int(CfgLayers(k)[2])
IsRoute(k) == TypeIs(CfgBlock(k), tRoute)
IsRoute1(k) == IsRoute(k) /\ Len(CfgLayers(k)) = 1
IsRoute2(k) == IsRoute(k) /\ Len(CfgLayers(k)) = 2
IsShortcut(k) == TypeIs(CfgBlock(k), tShortcut)
IsYolo(k) == TypeIs(CfgBlock(k), tYolo)
FromRef(k) == k + int(CfgBlock(k)[kFrom].v)

References(k) ==
    IF IsRoute(k) THEN {FirstRef(k)} \cup (IF IsRoute2(k) THEN {SecondRef(k)} ELSE {})
    ELSE IF IsShortcut(k) THEN {k - 1, FromRef(k)}
    ELSE {}

Unresolved(k) == \E r \in References(k) : r \notin 0..(k - 1)

\* C3: assembly fails at the first block whose type is not recognized; no
\* such block is skipped and none gets a cache entry.
C3_UnknownTypeFails ==
    \A k \in Processed : CfgBlock(k)[kType].v \in RecognizedTypes

\* C4: a route or shortcut block with a reference outside the cached indices
\* 0..i-1 makes assembly fail at that block.
C4_UnresolvedReferenceFails ==
    [][(Walking /\ Unresolved(i)) => (pc' = "raised" /\ i' = i /\ outputs' = outputs)]_vars

\* C4 witness: assembly failed at a block whose reference resolves below 0
\* by no more than the cache length (where a list index would wrap around).
C4_Witness ==
    /\ pc = "raised"
    /\ i >= 1 /\ i < NumBlocks(cfg)
    /\ \E r \in References(i) : r < 0 /\ r >= 0 - i

\* C5: the cache starts empty and grows by one entry per processed block:
\* after i blocks it holds the indices 0..i-1 and i filter counts, and a
\* step never changes or removes an existing entry.
C5_CacheGrowsByOne ==
    /\ [](Processed = 0..(i - 1) /\ Len(output_filters) = i)
    /\ [][/\ i' \in {i, i + 1}
          /\ \A k \in Processed :
                /\ k \in DOMAIN outputs' /\ outputs'[k] = outputs[k]
                /\ Len(output_filters') > k /\ output_filters'[k + 1] = Filter(k)]_vars

C5_Witness == pc = "returned" /\ i = 3 /\ Processed = {0, 1, 2}

\* C6: a processed route block with one reference caches the very tensor
\* cached at i+start and records that layer's filter count.
C6_SingleRouteAliases ==
    \A k \in Processed :
        IsRoute1(k) =>
            /\ FirstRef(k) \in 0..(k - 1)
            /\ outputs[k] = outputs[FirstRef(k)]
            /\ Filter(k) = Filter(FirstRef(k))
            /\ (k = i - 1 => inputs = outputs[FirstRef(k)])

C6_Witness ==
    \E k \in Processed :
        /\ IsRoute1(k) /\ FirstRef(k) = k - 2
        /\ Filter(k - 1) # Filter(k - 2)
        /\ outputs[k - 1] # outputs[k - 2]

\* C7: a processed route block with two references records the sum of the
\* filter counts of the two layers whose cached tensors it concatenates.
C7_DoubleRouteSums ==
    \A k \in Processed :
        IsRoute2(k) =>
            /\ FirstRef(k) \in 0..(k - 1) /\ SecondRef(k) \in 0..(k - 1)
            /\ outputs[k].op = "concat"
            /\ outputs[k].args = <<outputs[FirstRef(k)].id, outputs[SecondRef(k)].id>>
            /\ Filter(k) = PyAdd(Filter(FirstRef(k)), Filter(SecondRef(k)))

C7_Witness ==
    \E k \in Processed :
        /\ IsRoute2(k)
        /\ Filter(FirstRef(k)) # Filter(SecondRef(k))
        /\ Filter(k) = Filter(FirstRef(k)) + Filter(SecondRef(k))

\* C8: a processed shortcut block caches the sum of the tensor cached at i-1
\* (first operand) and the tensor cached at i+from (second operand).
C8_ShortcutReadsPrevious ==
    \A k \in Processed :
        IsShortcut(k) =>
            /\ outputs[k].op = "add"
            /\ outputs[k].args = <<outputs[k - 1].id, outputs[FromRef(k)].id>>
            /\ outputs[k].id \notin {outputs[j].id : j \in 0..(k - 1)}

C8_Witness ==
    \E k \in Processed :
        /\ IsShortcut(k) /\ FromRef(k) = k - 2
        /\ outputs[k - 1].id # outputs[k - 2].id

\* The yolo blocks among the first n post-net blocks, in processing order
YoloBlocks(n) == SelectSeq([k \in 1..n |-> k - 1], LAMBDA k : IsYolo(k))

RECURSIVE SumRecords(_)
SumRecords(hs) == IF hs = <<>> THEN 0 ELSE hs[1].n + SumRecords(Tail(hs))

\* C9: the merged prediction is the concatenation of the heads' decoded
\* predictions in the order their yolo blocks were processed, its record
\* count is the sum of theirs, and a block that is not yolo changes neither
\* the accumulator nor its flag.
C9_HeadsConcatenatedInOrder ==
    /\ [](/\ Len(out_pred.heads) = Len(YoloBlocks(i))
          /\ \A j \in 1..Len(YoloBlocks(i)) :
                /\ j <= Len(out_pred.heads)
                /\ out_pred.heads[j].block = YoloBlocks(i)[j]
                /\ out_pred.heads[j].n = outputs[YoloBlocks(i)[j]].shape[2]
          /\ (YoloBlocks(i) = <<>> <=> scale = 0)
          /\ (YoloBlocks(i) = <<>> => out_pred = EmptyPred)
          /\ (YoloBlocks(i) # <<>> => out_pred.shape[2] = SumRecords(out_pred.heads)))
    /\ [][(Walking /\ ~IsYolo(i)) => UNCHANGED <<out_pred, scale>>]_vars

C9_Witness ==
    /\ pc = "returned"
    /\ Len(out_pred.heads) = 2
    /\ out_pred.heads[1].n # out_pred.heads[2].n
    /\ out_pred.heads[2].block = out_pred.heads[1].block + 2

\* The tensor a processed yolo block k took as its input
HeadInputs(k) ==
    { x \in {outputs[j] : j \in 0..(k - 1)} \cup {Normalized(input_image, 1)} :
        outputs[k].args = <<x.id>> }
MaskLength(k) == Len(split(CfgBlock(k)[kMask].v, ","))
HeadRecords(k) ==
    { out_pred.heads[j].n : j \in { j \in 1..Len(out_pred.heads) : out_pred.heads[j].block = k } }

\* C10: a yolo block whose input has grid shape (H, W) and A*(5+num_classes)
\* channels, A the mask length, decodes to A*H*W records of 5+num_classes
\* channels.
C10_HeadRecordCount ==
    \A k \in Processed :
        IsYolo(k) =>
            /\ HeadInputs(k) # {}
            /\ \A x \in HeadInputs(k) :
                (Len(x.shape) = 4 /\ x.shape[4] = MaskLength(k) * (5 + num_classes)) =>
                    /\ HeadRecords(k) = {MaskLength(k) * x.shape[2] * x.shape[3]}
                    /\ out_pred.shape[3] = 5 + num_classes
                    /\ (k = i - 1 =>
                          prediction.shape =
                              <<None, MaskLength(k) * x.shape[2] * x.shape[3],
                                5 + num_classes>>)

C10_Witness ==
    \E k \in Processed :
        /\ IsYolo(k) /\ MaskLength(k) = 2 /\ k = i - 1
        /\ \E x \in HeadInputs(k) :
              Len(x.shape) = 4 /\ x.shape[4] = 2 * (5 + num_classes) /\ x.shape[2] = 208

(***************************************************************************)
(* Claims about the yolo branch (SpecDecode)                               *)
(***************************************************************************)
Decoded == pc = "yolo_decoded"
GridH == out_shape[2]
GridW == out_shape[3]
ImageH == image_shape[2]
ImageW == image_shape[3]

\* C11: every decoded center is (sigmoid + grid cell) * stride, the grid cell
\* added before the stride is applied, with the stride the integer quotient
\* input_image_height / grid_h, input_image_width / grid_w; cell (2,3), stride
\* (32,32) and sigmoid (0.5,0.5) give (80,112).  Centers are in 1/SigDen units.
C11_CenterAffineOrder ==
    Decoded =>
        /\ \A r \in DOMAIN box_centers :
            /\ box_centers[r][1] = (raw.sx + SigDen * cxy[r][1]) * (ImageH \div GridH)
            /\ box_centers[r][2] = (raw.sy + SigDen * cxy[r][2]) * (ImageW \div GridW)
        /\ \A r \in DOMAIN box_centers :
            (/\ cxy[r] = <<2, 3>>
             /\ ImageH \div GridH = 32 /\ ImageW \div GridW = 32
             /\ 2 * raw.sx = SigDen /\ 2 * raw.sy = SigDen)
            => box_centers[r] = <<80 * SigDen, 112 * SigDen>>

C11_Witness ==
    /\ Decoded
    /\ \E r \in DOMAIN box_centers :
        /\ cxy[r] = <<2, 3>>
        /\ strides = <<32, 32>>
        /\ 2 * raw.sx = SigDen /\ 2 * raw.sy = SigDen
        /\ box_centers[r] = <<80 * SigDen, 112 * SigDen>>

\* The mask indices and the flat anchor pool of the yolo block, as written
HeadMask == IntList(CfgBlock(0)[kMask].v)
FlatPool == IntList(CfgBlock(0)[kAnchors].v)
PairCount == Len(FlatPool) \div 2

\* C14: the yolo branch fails when a mask index exceeds the pair count of the
\* anchor pool; when lines 111-118 succeed the AnchorSet has the length of the
\* mask and holds, for each mask index m in mask order, the pair
\* (pool[2m], pool[2m+1]) of the flat pool
C14_AnchorSetSelectedByMask ==
    /\ [](pc = "yolo_reshape" =>
            /\ Len(anchors) = Len(HeadMask)
            /\ n_anchors = Len(HeadMask)
            /\ \A j \in 1..Len(HeadMask) :
                anchors[j] = <<ListGet(FlatPool, 2 * HeadMask[j]),
                               ListGet(FlatPool, 2 * HeadMask[j] + 1)>>)
    /\ [][(pc = "yolo_mask" /\ \E j \in 1..Len(HeadMask) : HeadMask[j] > PairCount)
            => pc' = "raised"]_vars

C14_Witness ==
    /\ pc = "yolo_reshape"
    /\ HeadMask = <<1, 0>>
    /\ anchors = <<<<16, 30>>, <<10, 13>>>>

\* The pair the mask selects for anchor slot a (counted from 0)
SlotPair(a) ==
    <<ListGet(FlatPool, 2 * HeadMask[a + 1]), ListGet(FlatPool, 2 * HeadMask[a + 1] + 1)>>

\* C17: for every grid shape (H, W), H # W included, the record with index
\* r = (h*W + w)*A + a, from grid row h, column w and anchor slot a, gets the
\* grid coordinate (cx, cy) = (w, h) added to its center offset and the a-th
\* pair of the AnchorSet multiplied into its box size
C17_GridAlignedWithRecords ==
    Decoded =>
        \A r \in DOMAIN records :
            /\ r - 1 = (records[r].h * GridW + records[r].w) * n_anchors + records[r].a
            /\ cxy[r] = <<records[r].w, records[r].h>>
            /\ box_shapes[r] = <<raw.ex * SlotPair(records[r].a)[1],
                                 raw.ex * SlotPair(records[r].a)[2]>>

(***************************************************************************)
(* Further claims about load_model (SpecBuild)                             *)
(***************************************************************************)
IsConvolutional(k) == TypeIs(CfgBlock(k), tConvolutional)
WalkEnded == pc \in {"walk", "returned", "raised"} /\ i = NumBlocks(cfg)

\* C12: the convolution of a processed convolutional block has a bias term
\* exactly when the block has no batch_normalize attribute; for the architecture
\* whose only block after net is the convolutional block with filters=1, size=1,
\* stride=1, activation=linear and no batch_normalize, the walk ends with
\* exactly one cache entry and that convolution has the bias term
C12_BiasIffNoBatchNormalize ==
    /\ \A k \in Processed :
        IsConvolutional(k) =>
            /\ ConvName(k) \in DOMAIN layers
            /\ layers[ConvName(k)].use_bias = (kBatchNormalize \notin DOMAIN CfgBlock(k))
    /\ (cfg = <<NetBlock, ConvMin>> /\ WalkEnded) =>
            /\ Processed = {0}
            /\ Len(output_filters) = 1
            /\ layers[ConvName(0)].use_bias

C12_Witness ==
    /\ cfg = <<NetBlock, ConvMin>> /\ WalkEnded
    /\ Processed = {0}
    /\ layers[ConvName(0)] = [filters |-> 1, kernel_size |-> 1, strides |-> 1,
                              padding |-> "same", use_bias |-> TRUE]

Channels(x) == x.shape[Len(x.shape)]

\* C15: for every processed block index, of whatever type, the filter count
\* recorded at the index is the output channel count of the tensor cached there
C15_FilterCountIsChannelCount ==
    \A k \in Processed : Filter(k) = Channels(outputs[k])

\* C16: a processed route block at index k with two layers values (start,
\* second) has end = second - k, and its tensor is the channel-wise
\* concatenation, in this order, of the tensors cached at k + start and at
\* k + end = second: the second value names the layer whose absolute index
\* equals it, the first one is relative to k
C16_RouteConcatenatesInOrder ==
    \A k \in Processed :
        IsRoute2(k) =>
            /\ FirstRef(k) \in 0..(k - 1)
            /\ SecondRef(k) \in 0..(k - 1)
            /\ outputs[k].op = "concat"
            /\ outputs[k].args = <<outputs[FirstRef(k)].id, outputs[SecondRef(k)].id>>
            /\ Channels(outputs[k]) =
                   Channels(outputs[FirstRef(k)]) + Channels(outputs[SecondRef(k)])
            /\ \A d \in 1..(Len(outputs[k].shape) - 1) :
                   outputs[k].shape[d] = outputs[FirstRef(k)].shape[d]
            /\ (i = k + 1 => inputs = outputs[k])

C16_Witness ==
    \E k \in Processed :
        /\ IsRoute2(k)
        /\ FirstRef(k) = k - 1 /\ SecondRef(k) = 0 /\ k = 2
        /\ outputs[1].id # outputs[0].id
        /\ Channels(outputs[1]) # Channels(outputs[0])
        /\ outputs[k].args = <<outputs[1].id, outputs[0].id>>

\* C19: graph assembly leaves the parsed block descriptors unchanged, route
\* blocks and their layers attribute included
C19_DescriptorsUnchanged ==
    blocks = cfg

IsUpsample(k) == TypeIs(CfgBlock(k), tUpsample)

\* C20: once block 0 is processed the current tensor is the tensor cached at
\* i-1, so the input a convolutional, upsample or yolo block at an index >= 1
\* consumes is the previous block's cached output; the tensor a yolo block
\* caches is the head's reshaped record tensor, not the grid-shaped one
C20_CurrentTensorIsPreviousOutput ==
    /\ i >= 1 => (i - 1 \in Processed /\ inputs = outputs[i - 1])
    /\ \A k \in Processed :
        (k >= 1 /\ (IsConvolutional(k) \/ IsUpsample(k) \/ IsYolo(k))) =>
            outputs[k].args = <<outputs[k - 1].id>>
    /\ \A k \in Processed :
        IsYolo(k) =>
            /\ outputs[k].op = "reshape"
            /\ Len(outputs[k].shape) = 3
            /\ outputs[k].shape[3] = 5 + num_classes

C20_Witness ==
    \E k \in Processed :
        /\ IsYolo(k) /\ k + 1 \in Processed /\ IsYolo(k + 1)
        /\ outputs[k].op = "reshape"
        /\ outputs[k + 1].args = <<outputs[k].id>>
        /\ i = k + 2 /\ inputs = outputs[k + 1]

(***************************************************************************)
(* Further claims about parse_cfg (SpecParse)                              *)
(***************************************************************************)
\* C13: parse_cfg never returns a block sequence for an empty source, one with
\* no lines or with blank and comment lines only (it fails instead)
C13_EmptySourceFails ==
    pc = "parse_returned" => Significant(file) # <<>>

\* C18: every line that is not a header is split on its first '=' only: a line
\* with more than one '=' is accepted, the key is the text before the first
\* '=' and the value everything after it, and both are stored with leading and
\* trailing whitespace removed
C18_SplitOnFirstEquals ==
    /\ (pc = "parse_raised" /\ ~IsHeader(lines[ln])) => ~Contains(lines[ln], "=")
    /\ (pc \in {"parse_loop", "parse_returned"} /\ ln > 1 /\ IsKeyValue(lines[ln - 1])) =>
            /\ KeyOf(lines[ln - 1]) \in DOMAIN holder
            /\ holder[KeyOf(lines[ln - 1])] = PyStr(ValueOf(lines[ln - 1]))

====
